---------------------------- MODULE Spec2Model ----------------------------
(***************************************************************************)
(* Model of the scheduling core of the kernel: the Processor singleton and *)
(* its dispatch loop (os/src/task/processor.rs) and the task control block *)
(* with its task-local memory and accounting operations                    *)
(* (os/src/task/task.rs).                                                  *)
(*                                                                         *)
(* The ready queue, the yield/exit hooks, the UPSafeCell borrow flag and   *)
(* the MemorySet region operations live outside the two source files; they *)
(* are modelled from the design document and marked as such.               *)
(***************************************************************************)
EXTENDS Integers, Sequences, FiniteSets, TLC

(***************************************************************************)
(* Bounds of the model.                                                    *)
(***************************************************************************)
\* number of tasks of the scheduling specification
NumTasks == 2
\* pages 0 .. MaxPages-1 are used as region starts
MaxPages == 2
\* the heap may grow by at most this many pages
MaxHeapPages == 2
\* a syscall counter is driven up to this value
MaxCount == 2
\* the clock runs from 0 to this many milliseconds
MaxTime == 2
\* stand-in for config::MAX_SYSCALL_NUM (the length of syscall_times)
MAX_SYSCALL_NUM == 2

(***************************************************************************)
(* Program constants.                                                      *)
(***************************************************************************)
\* the literal 4096 of m_map / m_unmap
PAGE_SIZE == 4096
\* Option::None of Processor.current
NoTask == 0
\* Option::None returned by change_program_brk
NoneRet == -1

Tasks == 1 .. NumTasks
\* the task of the single-task specifications SpecMem and SpecAcct
SoloTasks == {1}

\* inputs of the operations
UserSpSet == {2 * PAGE_SIZE}
StartSet == {p * PAGE_SIZE : p \in 0 .. (MaxPages - 1)} \cup {1}
LenSet == {0, PAGE_SIZE, 2 * PAGE_SIZE, PAGE_SIZE + 1}
PortSet == {0, 1, 3, 9}
\* the break moves in half pages
BrkStep == PAGE_SIZE \div 2
DeltaSet == {k * BrkStep : k \in (0 - 2 * MaxHeapPages) .. 2}
SyscallSet == 0 .. (MAX_SYSCALL_NUM + 1)

VARIABLES
    tasks,              \* task id -> TaskControlBlock
    ready,              \* the ready queue (the set of queued task ids)
    current,            \* Processor.current
    processor_borrowed, \* borrow flag of the PROCESSOR UPSafeCell
    tcb_borrowed,       \* task id -> borrow flag of the TCB's inner cell
    pc,                 \* position of the idle control flow in run_tasks
    task,               \* run_tasks' local `task`
    flow,               \* the control flow that executes: NoTask = idle, else a task
    tpc,                \* task id -> position of the task's control flow
    taken,              \* the handle a yielding or exiting task took from the slot
    panic,              \* "" or the panic that stopped the kernel
    now,                \* what get_time_ms() returns
    last                \* the last task-local operation, its arguments and result

vars == <<tasks, ready, current, processor_borrowed, tcb_borrowed, pc, task,
          flow, tpc, taken, panic, now, last>>

(***************************************************************************)
(* Bit operations on naturals.                                             *)
(***************************************************************************)
RECURSIVE BitOr(_, _)
BitOr(a, b) ==
    IF a = 0 THEN b
    ELSE IF b = 0 THEN a
    ELSE (IF a % 2 = 1 \/ b % 2 = 1 THEN 1 ELSE 0) + 2 * BitOr(a \div 2, b \div 2)

RECURSIVE BitAnd(_, _)
BitAnd(a, b) ==
    IF a = 0 \/ b = 0 THEN 0
    ELSE (IF a % 2 = 1 /\ b % 2 = 1 THEN 1 ELSE 0) + 2 * BitAnd(a \div 2, b \div 2)

\* port & !0x7 on usize: every bit of port except the three low ones
ClearLow3(port) == port - BitAnd(port, 7)

(***************************************************************************)
(* TaskInfo (task.rs).                                                     *)
(***************************************************************************)
TaskInfoNew(ts) ==
    [status |-> ts,
     syscall_times |-> [i \in 0 .. (MAX_SYSCALL_NUM - 1) |-> 0],
     time |-> 0]

SetStatus(info, status) == [info EXCEPT !.status = status]

SetRunTime(info, t) == [info EXCEPT !.time = t]

\* mutant: the bound check admits idx = MAX_SYSCALL_NUM and the write lands on
\* the last entry
IncreaseSyscallTimeOffByOne(info, idx) ==
    IF idx <= MAX_SYSCALL_NUM
    THEN LET i == IF idx < MAX_SYSCALL_NUM THEN idx ELSE MAX_SYSCALL_NUM - 1
         IN [info EXCEPT !.syscall_times[i] = @ + 1]
    ELSE info

IncreaseSyscallTime(info, idx) ==
    IF idx < MAX_SYSCALL_NUM
    THEN [info EXCEPT !.syscall_times[idx] = @ + 1]
    ELSE info

(***************************************************************************)
(* MemorySet region operations (os/src/mm, not among the source files):    *)
(* modelled from the design document.  The mapped-region set is a set of   *)
(* records [lo, hi, perm]; a region is identified by its bounds.           *)
(***************************************************************************)
Overlaps(lo, hi, a) == (lo < a.hi /\ a.lo < hi) \/ (lo = a.lo /\ hi = a.hi)

\* insert_framed_area: all-or-nothing, overlap is a failure
InsertFramedArea(ms, lo, hi, perm) ==
    IF \E a \in ms : Overlaps(lo, hi, a)
    THEN [memory_set |-> ms, ret |-> -1]
    ELSE [memory_set |-> ms \cup {[lo |-> lo, hi |-> hi, perm |-> perm]}, ret |-> 0]

\* remove_area: removes the region whose bounds are exactly [lo, hi)
RemoveArea(ms, lo, hi) ==
    IF \E a \in ms : a.lo = lo /\ a.hi = hi
    THEN [memory_set |-> {a \in ms : ~(a.lo = lo /\ a.hi = hi)}, ret |-> 0]
    ELSE [memory_set |-> ms, ret |-> -1]

(***************************************************************************)
(* TaskControlBlock (task.rs).                                             *)
(***************************************************************************)
\* the slot of a task that is not constructed yet
UnInitTask ==
    [task_info |-> TaskInfoNew("UnInit"), task_status |-> "UnInit",
     memory_set |-> {}, base_size |-> 0, heap_bottom |-> 0, program_brk |-> 0,
     task_start_time |-> 0]

\* mutant: construction leaves the status at UnInit
TaskControlBlockNewUnInit(user_sp) ==
    [task_info |-> TaskInfoNew("UnInit"), task_status |-> "UnInit",
     memory_set |-> {}, base_size |-> user_sp, heap_bottom |-> user_sp,
     program_brk |-> user_sp, task_start_time |-> 0]

\* TaskControlBlock::new; user_sp is what MemorySet::from_elf returns
TaskControlBlockNew(user_sp) ==
    [task_info |-> TaskInfoNew("Ready"), task_status |-> "Ready",
     memory_set |-> {}, base_size |-> user_sp, heap_bottom |-> user_sp,
     program_brk |-> user_sp, task_start_time |-> 0]

\* mutant: the break is stored before the address space answered
ChangeProgramBrkEager(tcb, size, result) ==
    LET old_break == tcb.program_brk
        new_brk == tcb.program_brk + size
    IN IF new_brk < tcb.heap_bottom
       THEN [tcb |-> tcb, ret |-> NoneRet]
       ELSE IF result
            THEN [tcb |-> [tcb EXCEPT !.program_brk = new_brk], ret |-> old_break]
            ELSE [tcb |-> [tcb EXCEPT !.program_brk = new_brk], ret |-> NoneRet]

\* mutant: a break below heap_bottom is accepted
ChangeProgramBrkNoFloor(tcb, size, result) ==
    LET old_break == tcb.program_brk
        new_brk == tcb.program_brk + size
    IN IF result
       THEN [tcb |-> [tcb EXCEPT !.program_brk = new_brk], ret |-> old_break]
       ELSE [tcb |-> tcb, ret |-> NoneRet]

\* change_program_brk; result is what shrink_to / append_to answers
ChangeProgramBrk(tcb, size, result) ==
    LET old_break == tcb.program_brk
        new_brk == tcb.program_brk + size
    IN IF new_brk < tcb.heap_bottom
       THEN [tcb |-> tcb, ret |-> NoneRet]
       ELSE IF result
            THEN [tcb |-> [tcb EXCEPT !.program_brk = new_brk], ret |-> old_break]
            ELSE [tcb |-> tcb, ret |-> NoneRet]

\* (port << 1) | 0x18, the bits handed to MapPermission::from_usize
PermBits(port) == BitOr(port * 2, 24)

\* mutant: the check that some permission bit is set is missing
MMapNoEmptyCheck(tcb, start, len, port) ==
    IF start % PAGE_SIZE = 0 /\ ClearLow3(port) = 0
    THEN LET r == InsertFramedArea(tcb.memory_set, start, start + len, PermBits(port))
         IN [tcb |-> [tcb EXCEPT !.memory_set = r.memory_set], ret |-> r.ret]
    ELSE [tcb |-> tcb, ret |-> -1]

\* mutant: the answer of insert_framed_area is dropped and 0 is returned (the
\* variant left in the comment of m_map)
MMapIgnoreResult(tcb, start, len, port) ==
    IF start % PAGE_SIZE = 0 /\ ClearLow3(port) = 0 /\ BitAnd(port, 7) # 0
    THEN LET r == InsertFramedArea(tcb.memory_set, start, start + len, PermBits(port))
         IN [tcb |-> [tcb EXCEPT !.memory_set = r.memory_set], ret |-> 0]
    ELSE [tcb |-> tcb, ret |-> -1]

\* m_map
MMap(tcb, start, len, port) ==
    IF start % PAGE_SIZE = 0 /\ ClearLow3(port) = 0 /\ BitAnd(port, 7) # 0
    THEN LET r == InsertFramedArea(tcb.memory_set, start, start + len, PermBits(port))
         IN [tcb |-> [tcb EXCEPT !.memory_set = r.memory_set], ret |-> r.ret]
    ELSE [tcb |-> tcb, ret |-> -1]

\* mutant: len is not checked
MUnmapNoLenCheck(tcb, start, len) ==
    IF start % PAGE_SIZE = 0
    THEN LET r == RemoveArea(tcb.memory_set, start, start + len)
         IN [tcb |-> [tcb EXCEPT !.memory_set = r.memory_set], ret |-> r.ret]
    ELSE [tcb |-> tcb, ret |-> -1]

\* mutant: the end of the range is taken inclusive, one page too far (the loop
\* left in the comment of m_unmap runs over start ..= start + len)
MUnmapInclusiveEnd(tcb, start, len) ==
    IF start % PAGE_SIZE = 0 /\ len % PAGE_SIZE = 0
    THEN LET r == RemoveArea(tcb.memory_set, start, start + len + PAGE_SIZE)
         IN [tcb |-> [tcb EXCEPT !.memory_set = r.memory_set], ret |-> r.ret]
    ELSE [tcb |-> tcb, ret |-> -1]

\* m_unmap
MUnmap(tcb, start, len) ==
    IF start % PAGE_SIZE = 0 /\ len % PAGE_SIZE = 0
    THEN LET r == RemoveArea(tcb.memory_set, start, start + len)
         IN [tcb |-> [tcb EXCEPT !.memory_set = r.memory_set], ret |-> r.ret]
    ELSE [tcb |-> tcb, ret |-> -1]

(***************************************************************************)
(* Processor (processor.rs).                                               *)
(***************************************************************************)
\* mutant: the slot is cloned, not moved out
TakeCurrentKeep(cur) == [ret |-> cur, current |-> cur]

\* Processor::take_current
TakeCurrent(cur) == [ret |-> cur, current |-> NoTask]

\* mutant: the authoritative status is overwritten from the mirror
RefreshTaskInfoReversed(tcb, syscall_idx, refresh_flag) ==
    LET synced == [tcb EXCEPT !.task_status = tcb.task_info.status]
    IN [synced EXCEPT !.task_info =
            IF refresh_flag THEN IncreaseSyscallTime(@, syscall_idx) ELSE @]

\* Processor::refresh_task_info, applied to the current task's TCB
RefreshTaskInfo(tcb, syscall_idx, refresh_flag) ==
    LET synced == SetStatus(tcb.task_info, tcb.task_status)
    IN [tcb EXCEPT !.task_info =
            IF refresh_flag THEN IncreaseSyscallTime(synced, syscall_idx) ELSE synced]

\* the outcome of PROCESSOR.exclusive_access(), current().unwrap() and
\* inner_exclusive_access() in a current-task accessor: "" when all succeed
ResolveCurrent ==
    IF processor_borrowed THEN "BorrowMutError"
    ELSE IF current = NoTask THEN "NoCurrentTask"
    ELSE IF tcb_borrowed[current] THEN "BorrowMutError"
    ELSE ""

NoOp == [op |-> "none", task |-> NoTask, a |-> 0, b |-> 0, c |-> 0, ret |-> 0,
         pre |-> {}, snap |-> ""]


(***************************************************************************)
(* Initial state: the Processor is constructed (Processor::new), no task   *)
(* is loaded, the idle control flow is about to enter run_tasks.           *)
(***************************************************************************)
Init ==
    /\ tasks = [t \in Tasks |-> UnInitTask]
    /\ ready = {}
    /\ current = NoTask
    /\ processor_borrowed = FALSE
    /\ tcb_borrowed = [t \in Tasks |-> FALSE]
    /\ pc = "loop"
    /\ task = NoTask
    /\ flow = NoTask
    /\ tpc = [t \in Tasks |-> "new"]
    /\ taken = NoTask
    /\ panic = ""
    /\ now = 0
    /\ last = NoOp

\* a panic stops the kernel where it is
Panic(e) ==
    /\ panic' = e
    /\ UNCHANGED <<now, tasks, ready, current, processor_borrowed, tcb_borrowed, pc,
                   task, flow, tpc, taken, last>>

\* a panic raised inside PROCESSOR.exclusive_access().<method>(...): the guard
\* is a temporary that lives to the end of the statement and the kernel's
\* panic does not unwind, so the kernel stops with the Processor borrowed
PanicInProcessor(e) ==
    /\ panic' = e
    /\ processor_borrowed' = TRUE
    /\ UNCHANGED <<now, tasks, ready, current, tcb_borrowed, pc, task, flow, tpc,
                   taken, last>>

\* the idle flow is between two iterations of run_tasks, or a task runs its own code
Quiescent ==
    \/ flow = NoTask /\ pc = "loop"
    \/ flow # NoTask /\ tpc[flow] = "user"

(***************************************************************************)
(* Loading a task: TaskControlBlock::new followed by add_task.  It happens *)
(* at boot or on behalf of a running task, never inside a critical section.*)
(***************************************************************************)
LoadTask(t, user_sp) ==
    /\ panic = ""
    /\ Quiescent
    /\ tasks[t].task_status = "UnInit"
    /\ tasks' = [tasks EXCEPT ![t] = TaskControlBlockNew(user_sp)]
    /\ ready' = ready \cup {t}
    /\ UNCHANGED <<now, current, processor_borrowed, tcb_borrowed, pc, task, flow,
                   tpc, taken, panic, last>>

(***************************************************************************)
(* run_tasks, statement by statement.                                      *)
(***************************************************************************)
\* line 94: let mut processor = PROCESSOR.exclusive_access()
RunTasksAccess ==
    /\ panic = "" /\ flow = NoTask /\ pc = "loop"
    /\ IF processor_borrowed
       THEN Panic("BorrowMutError")
       ELSE /\ processor_borrowed' = TRUE
            /\ pc' = "fetch"
            /\ UNCHANGED <<now, tasks, ready, current, tcb_borrowed, task, flow, tpc,
                           taken, panic, last>>

\* mutant: the Processor stays borrowed over the end of the iteration
RunTasksFetchNoneKeep ==
    /\ panic = "" /\ flow = NoTask /\ pc = "fetch"
    /\ ready = {}
    /\ pc' = "loop"
    /\ last' = [NoOp EXCEPT !.op = "warn"]
    /\ UNCHANGED <<now, tasks, ready, current, processor_borrowed, tcb_borrowed,
                   task, flow, tpc, taken, panic>>

\* lines 95, 110-113: fetch_min_task() is None; the warning is logged and the
\* guard `processor` is dropped at the end of the iteration
RunTasksFetchNone ==
    /\ panic = "" /\ flow = NoTask /\ pc = "fetch"
    /\ ready = {}
    /\ processor_borrowed' = FALSE
    /\ pc' = "loop"
    /\ last' = [NoOp EXCEPT !.op = "warn"]
    /\ UNCHANGED <<now, tasks, ready, current, tcb_borrowed, task, flow, tpc, taken,
                   panic>>

\* line 95: fetch_min_task() is Some(task); which queued task it is, is the
\* ready queue's policy
RunTasksFetchSome(t) ==
    /\ panic = "" /\ flow = NoTask /\ pc = "fetch"
    /\ t \in ready
    /\ ready' = ready \ {t}
    /\ task' = t
    /\ pc' = "access_inner"
    /\ UNCHANGED <<now, tasks, current, processor_borrowed, tcb_borrowed, flow, tpc,
                   taken, panic, last>>

\* lines 98-100: task.inner_exclusive_access(); task_status = Running; the
\* dispatch is recorded with its time, the status it found, and whether the
\* task has run before (c = 1 on its first dispatch)
RunTasksMark ==
    /\ panic = "" /\ flow = NoTask /\ pc = "access_inner"
    /\ IF tcb_borrowed[task]
       THEN Panic("BorrowMutError")
       ELSE /\ tcb_borrowed' = [tcb_borrowed EXCEPT ![task] = TRUE]
            /\ tasks' = [tasks EXCEPT ![task].task_status = "Running"]
            /\ pc' = "drop_inner"
            /\ last' = [NoOp EXCEPT !.op = "dispatch", !.task = task, !.a = now,
                                    !.c = IF tpc[task] = "new" THEN 1 ELSE 0,
                                    !.snap = tasks[task].task_status]
            /\ UNCHANGED <<now, ready, current, processor_borrowed, task, flow, tpc,
                           taken, panic>>

\* mutant: the TCB stays borrowed after the status is written
RunTasksKeepInner ==
    /\ panic = "" /\ flow = NoTask /\ pc = "drop_inner"
    /\ pc' = "install"
    /\ UNCHANGED <<now, tasks, ready, current, processor_borrowed, tcb_borrowed,
                   task, flow, tpc, taken, panic, last>>

\* line 102: drop(task_inner)
RunTasksDropInner ==
    /\ panic = "" /\ flow = NoTask /\ pc = "drop_inner"
    /\ tcb_borrowed' = [tcb_borrowed EXCEPT ![task] = FALSE]
    /\ pc' = "install"
    /\ UNCHANGED <<now, tasks, ready, current, processor_borrowed, task, flow, tpc,
                   taken, panic, last>>

\* mutant: the selected task is not stored in the slot
RunTasksNoInstall ==
    /\ panic = "" /\ flow = NoTask /\ pc = "install"
    /\ pc' = "drop_processor"
    /\ UNCHANGED <<now, tasks, ready, current, processor_borrowed, tcb_borrowed, task,
                   flow, tpc, taken, panic, last>>

\* line 104: processor.current = Some(task)
RunTasksInstall ==
    /\ panic = "" /\ flow = NoTask /\ pc = "install"
    /\ current' = task
    /\ pc' = "drop_processor"
    /\ UNCHANGED <<now, tasks, ready, processor_borrowed, tcb_borrowed, task, flow,
                   tpc, taken, panic, last>>

\* line 106: drop(processor)
RunTasksDropProcessor ==
    /\ panic = "" /\ flow = NoTask /\ pc = "drop_processor"
    /\ processor_borrowed' = FALSE
    /\ pc' = "switch"
    /\ UNCHANGED <<now, tasks, ready, current, tcb_borrowed, task, flow, tpc, taken,
                   panic, last>>

\* line 108: __switch(idle_task_cx_ptr, next_task_cx_ptr): the idle flow is
\* suspended inside the call, the task's flow continues where its context says
RunTasksSwitch ==
    /\ panic = "" /\ flow = NoTask /\ pc = "switch"
    /\ flow' = task
    /\ tpc' = [tpc EXCEPT ![task] = "user"]
    /\ pc' = "switched"
    /\ task' = NoTask
    /\ UNCHANGED <<now, tasks, ready, current, processor_borrowed, tcb_borrowed,
                   taken, panic, last>>

(***************************************************************************)
(* The yield and exit hooks (suspend_current_and_run_next and              *)
(* exit_current_and_run_next of os/src/task/mod.rs, not among the source   *)
(* files): take_current_task, then mark the task Ready and re-queue it, or *)
(* mark it Exited, then schedule.                                          *)
(***************************************************************************)
\* take_current_task().unwrap() (processor.rs 117-119) as the first statement
\* of a hook; next is the position after it
TakeCurrentTask(t, next) ==
    /\ panic = "" /\ flow = t /\ tpc[t] = "user"
    /\ IF processor_borrowed
       THEN Panic("BorrowMutError")
       ELSE LET r == TakeCurrent(current)
            IN IF r.ret = NoTask
               THEN Panic("NoCurrentTask")
               ELSE /\ taken' = r.ret
                    /\ current' = r.current
                    /\ tpc' = [tpc EXCEPT ![t] = next]
                    /\ last' = NoOp
                    /\ UNCHANGED <<now, tasks, ready, processor_borrowed, tcb_borrowed,
                                   pc, task, flow, panic>>

SuspendTake(t) == TakeCurrentTask(t, "suspend_taken")

\* task_status = Ready under the TCB's exclusive access, then add_task(task)
SuspendMarkReady(t) ==
    /\ panic = "" /\ flow = t /\ tpc[t] = "suspend_taken"
    /\ IF tcb_borrowed[taken]
       THEN Panic("BorrowMutError")
       ELSE /\ tasks' = [tasks EXCEPT ![taken].task_status = "Ready"]
            /\ ready' = ready \cup {taken}
            /\ tpc' = [tpc EXCEPT ![t] = "schedule"]
            /\ UNCHANGED <<now, current, processor_borrowed, tcb_borrowed, pc, task,
                           flow, taken, panic, last>>

ExitTake(t) == TakeCurrentTask(t, "exit_taken")

\* task_status = Exited under the TCB's exclusive access; the task is not queued
ExitMark(t) ==
    /\ panic = "" /\ flow = t /\ tpc[t] = "exit_taken"
    /\ IF tcb_borrowed[taken]
       THEN Panic("BorrowMutError")
       ELSE /\ tasks' = [tasks EXCEPT ![taken].task_status = "Exited"]
            /\ tpc' = [tpc EXCEPT ![t] = "schedule"]
            /\ UNCHANGED <<now, ready, current, processor_borrowed, tcb_borrowed, pc,
                           task, flow, taken, panic, last>>

(***************************************************************************)
(* schedule, statement by statement.                                       *)
(***************************************************************************)
\* lines 142-143: PROCESSOR.exclusive_access(); get_idle_task_cx_ptr()
ScheduleAccess(t) ==
    /\ panic = "" /\ flow = t /\ tpc[t] = "schedule"
    /\ IF processor_borrowed
       THEN Panic("BorrowMutError")
       ELSE /\ processor_borrowed' = TRUE
            /\ tpc' = [tpc EXCEPT ![t] = "schedule_drop"]
            /\ UNCHANGED <<now, tasks, ready, current, tcb_borrowed, pc, task, flow,
                           taken, panic, last>>

\* mutant: the Processor is still borrowed when the idle flow is switched in
ScheduleKeepProcessor(t) ==
    /\ panic = "" /\ flow = t /\ tpc[t] = "schedule_drop"
    /\ tpc' = [tpc EXCEPT ![t] = "schedule_switch"]
    /\ UNCHANGED <<now, tasks, ready, current, processor_borrowed, tcb_borrowed, pc,
                   task, flow, taken, panic, last>>

\* line 144: drop(processor)
ScheduleDropProcessor(t) ==
    /\ panic = "" /\ flow = t /\ tpc[t] = "schedule_drop"
    /\ processor_borrowed' = FALSE
    /\ tpc' = [tpc EXCEPT ![t] = "schedule_switch"]
    /\ UNCHANGED <<now, tasks, ready, current, tcb_borrowed, pc, task, flow, taken,
                   panic, last>>

\* mutant: the switch returns to the calling task at once
ScheduleSwitchStay(t) ==
    /\ panic = "" /\ flow = t /\ tpc[t] = "schedule_switch"
    /\ pc = "switched"
    /\ tpc' = [tpc EXCEPT ![t] = "user"]
    /\ taken' = NoTask
    /\ UNCHANGED <<now, tasks, ready, current, processor_borrowed, tcb_borrowed, pc,
                   task, flow, panic, last>>

\* line 146: __switch(switched_task_cx_ptr, idle_task_cx_ptr): the task's flow
\* is suspended, the idle flow returns from its __switch and loops
ScheduleSwitch(t) ==
    /\ panic = "" /\ flow = t /\ tpc[t] = "schedule_switch"
    /\ pc = "switched"
    /\ flow' = NoTask
    /\ pc' = "loop"
    /\ tpc' = [tpc EXCEPT ![t] = "suspended"]
    /\ taken' = NoTask
    /\ UNCHANGED <<now, tasks, ready, current, processor_borrowed, tcb_borrowed, task,
                   panic, last>>

(***************************************************************************)
(* Current-task operations, called by the running task's syscall handlers. *)
(***************************************************************************)
\* the caller of an operation: a task that runs its own code, or (t = NoTask)
\* kernel code that runs on the idle flow between two iterations of run_tasks
Calls(t) ==
    IF t = NoTask
    THEN flow = NoTask /\ pc = "loop"
    ELSE flow = t /\ tpc[t] = "user"

\* refresh_processor_syscall_times (lines 154-156)
RefreshProcessorSyscallTimes(t, syscall) ==
    /\ panic = "" /\ Calls(t)
    /\ LET e == ResolveCurrent
       IN IF e # ""
          THEN PanicInProcessor(e)
          ELSE /\ tasks' = [tasks EXCEPT
                        ![current] = RefreshTaskInfo(@, syscall, TRUE)]
               /\ last' = [NoOp EXCEPT !.op = "refresh", !.task = current,
                                        !.a = syscall]
               /\ UNCHANGED <<now, ready, current, processor_borrowed, tcb_borrowed,
                              pc, task, flow, tpc, taken, panic>>

\* current_processor_m_map (lines 158-160) with Processor::current_task_m_map
CurrentProcessorMMap(t, start, len, port) ==
    /\ panic = "" /\ Calls(t)
    /\ LET e == ResolveCurrent
       IN IF e # ""
          THEN PanicInProcessor(e)
          ELSE LET r == MMap(tasks[current], start, len, port)
               IN /\ tasks' = [tasks EXCEPT ![current] = r.tcb]
                  /\ last' = [op |-> "m_map", task |-> current, a |-> start,
                              b |-> len, c |-> port, ret |-> r.ret,
                              pre |-> tasks[current].memory_set, snap |-> ""]
                  /\ UNCHANGED <<now, ready, current, processor_borrowed, tcb_borrowed,
                                 pc, task, flow, tpc, taken, panic>>

\* the last operation was a successful m_map of [start, start + len) by the
\* current task (recorded for the round trip of m_map and m_unmap)
AfterMap(start, len) ==
    /\ last.op = "m_map" /\ last.ret = 0 /\ last.task = current
    /\ last.a = start /\ last.b = len

\* current_processor_m_unmap (lines 162-164) with Processor::current_task_m_unmap
CurrentProcessorMUnmap(t, start, len) ==
    /\ panic = "" /\ Calls(t)
    /\ LET e == ResolveCurrent
       IN IF e # ""
          THEN PanicInProcessor(e)
          ELSE LET r == MUnmap(tasks[current], start, len)
               IN /\ tasks' = [tasks EXCEPT ![current] = r.tcb]
                  /\ last' = [op |-> "m_unmap", task |-> current, a |-> start,
                              b |-> len, c |-> IF AfterMap(start, len) THEN 1 ELSE 0,
                              ret |-> r.ret,
                              pre |-> IF AfterMap(start, len) THEN last.pre ELSE {},
                              snap |-> ""]
                  /\ UNCHANGED <<now, ready, current, processor_borrowed, tcb_borrowed,
                                 pc, task, flow, tpc, taken, panic>>

\* the sbrk path: change_program_brk on the current task's TCB; result is the
\* answer of the address space's shrink_to / append_to
CurrentChangeProgramBrk(t, size, result) ==
    /\ panic = "" /\ Calls(t)
    /\ current # NoTask
           => tasks[current].program_brk + size
                  <= tasks[current].heap_bottom + MaxHeapPages * PAGE_SIZE
    /\ LET e == ResolveCurrent
       IN IF e # ""
          THEN Panic(e)
          ELSE LET r == ChangeProgramBrk(tasks[current], size, result)
               IN /\ tasks' = [tasks EXCEPT ![current] = r.tcb]
                  /\ last' = [NoOp EXCEPT !.op = "brk", !.task = current,
                                           !.a = size, !.b = IF result THEN 1 ELSE 0,
                                           !.ret = r.ret]
                  /\ UNCHANGED <<now, ready, current, processor_borrowed, tcb_borrowed,
                                 pc, task, flow, tpc, taken, panic>>

\* Processor::get_current_task_info, applied to the current task's TCB; time
\* is what get_time_ms() returns
GetCurrentTaskInfo(tcb, time) ==
    LET run_time == time - tcb.task_start_time
        updated == [tcb EXCEPT !.task_info = SetRunTime(@, run_time)]
    IN [tcb |-> updated, ret |-> updated.task_info]

\* get_current_processor_info (lines 150-152)
GetCurrentProcessorInfo(t) ==
    /\ panic = "" /\ Calls(t)
    /\ LET e == ResolveCurrent
       IN IF e # ""
          THEN PanicInProcessor(e)
          ELSE LET r == GetCurrentTaskInfo(tasks[current], now)
               IN /\ tasks' = [tasks EXCEPT ![current] = r.tcb]
                  /\ last' = [NoOp EXCEPT !.op = "info", !.task = current,
                                           !.a = now, !.ret = r.ret.time,
                                           !.snap = r.ret.status]
                  /\ UNCHANGED <<now, ready, current, processor_borrowed,
                                 tcb_borrowed, pc, task, flow, tpc, taken, panic>>

\* the outcome of PROCESSOR.exclusive_access().current() followed by unwrap()
ResolveCurrentTask ==
    IF processor_borrowed THEN "BorrowMutError"
    ELSE IF current = NoTask THEN "NoCurrentTask"
    ELSE ""

\* current_task (lines 122-124): a clone of the slot's content
CurrentTask(t) ==
    /\ panic = "" /\ Calls(t)
    /\ IF processor_borrowed
       THEN Panic("BorrowMutError")
       ELSE /\ last' = [NoOp EXCEPT !.op = "current", !.ret = current]
            /\ UNCHANGED <<now, tasks, ready, current, processor_borrowed,
                           tcb_borrowed, pc, task, flow, tpc, taken, panic>>

\* mutant: an empty slot is answered with the token 0
CurrentUserTokenOrZero(t) ==
    /\ panic = "" /\ Calls(t)
    /\ IF processor_borrowed
       THEN Panic("BorrowMutError")
       ELSE /\ last' = [NoOp EXCEPT !.op = "token", !.task = current,
                                     !.ret = current]
            /\ UNCHANGED <<now, tasks, ready, current, processor_borrowed,
                           tcb_borrowed, pc, task, flow, tpc, taken, panic>>

\* current_user_token (lines 127-130); the token is recorded as the task whose
\* address space it names
CurrentUserToken(t) ==
    /\ panic = "" /\ Calls(t)
    /\ LET e == ResolveCurrentTask
       IN IF e # ""
          THEN Panic(e)
          ELSE /\ last' = [NoOp EXCEPT !.op = "token", !.task = current,
                                        !.ret = current]
               /\ UNCHANGED <<now, tasks, ready, current, processor_borrowed,
                              tcb_borrowed, pc, task, flow, tpc, taken, panic>>

\* current_trap_cx (lines 133-138); the trap context is recorded as the task
\* it belongs to
CurrentTrapCx(t) ==
    /\ panic = "" /\ Calls(t)
    /\ LET e == ResolveCurrent
       IN IF e # ""
          THEN Panic(e)
          ELSE /\ last' = [NoOp EXCEPT !.op = "trap_cx", !.task = current,
                                        !.ret = current]
               /\ UNCHANGED <<now, tasks, ready, current, processor_borrowed,
                              tcb_borrowed, pc, task, flow, tpc, taken, panic>>

\* take_current_task (lines 116-119) called on the idle flow between two
\* iterations of run_tasks: the Option is returned as it is
IdleTakeCurrentTask ==
    /\ panic = "" /\ Calls(NoTask)
    /\ IF processor_borrowed
       THEN Panic("BorrowMutError")
       ELSE LET r == TakeCurrent(current)
            IN /\ current' = r.current
               /\ last' = [NoOp EXCEPT !.op = "take", !.a = current, !.ret = r.ret]
               /\ UNCHANGED <<now, tasks, ready, processor_borrowed, tcb_borrowed,
                              pc, task, flow, tpc, taken, panic>>

\* the clock advances
Tick ==
    /\ panic = ""
    /\ now < MaxTime
    /\ now' = now + 1
    /\ UNCHANGED <<tasks, ready, current, processor_borrowed, tcb_borrowed, pc,
                   task, flow, tpc, taken, panic, last>>

(***************************************************************************)
(* Specifications.                                                         *)
(***************************************************************************)
\* one iteration step of the idle flow
RunTasks ==
    \/ RunTasksAccess
    \/ RunTasksFetchNone
    \/ \E t \in Tasks : RunTasksFetchSome(t)
    \/ RunTasksMark
    \/ RunTasksDropInner
    \/ RunTasksInstall
    \/ RunTasksDropProcessor
    \/ RunTasksSwitch

\* a step of a task's yield, including schedule
Suspend ==
    \E t \in Tasks :
        \/ SuspendTake(t)
        \/ SuspendMarkReady(t)
        \/ ScheduleAccess(t)
        \/ ScheduleDropProcessor(t)
        \/ ScheduleSwitch(t)

\* the dispatcher and the tasks' yields and exits
Next ==
    \/ \E t \in Tasks, sp \in UserSpSet : LoadTask(t, sp)
    \/ RunTasks
    \/ Suspend
    \/ \E t \in Tasks : ExitTake(t)
    \/ \E t \in Tasks : ExitMark(t)

Spec == Init /\ [][Next]_vars

\* one task that maps and unmaps regions of its address space
NextMem ==
    \/ \E t \in SoloTasks, sp \in UserSpSet : LoadTask(t, sp)
    \/ RunTasks
    \/ \E t \in Tasks, start \in StartSet, len \in LenSet, port \in PortSet :
           CurrentProcessorMMap(t, start, len, port)
    \/ \E t \in Tasks, start \in StartSet, len \in LenSet :
           CurrentProcessorMUnmap(t, start, len)

SpecMem == Init /\ [][NextMem]_vars

\* one task that moves its program break between yields
NextBrk ==
    \/ \E t \in SoloTasks, sp \in UserSpSet : LoadTask(t, sp)
    \/ RunTasks
    \/ Suspend
    \/ \E t \in Tasks, size \in DeltaSet, result \in BOOLEAN :
           CurrentChangeProgramBrk(t, size, result)

SpecBrk == Init /\ [][NextBrk]_vars

\* the workload's size: the current task has made fewer than MaxCount calls
\* of the syscall (the code counts on, in a u32)
FewCalls(syscall) ==
    (current # NoTask /\ syscall < MAX_SYSCALL_NUM)
        => tasks[current].task_info.syscall_times[syscall] < MaxCount

\* one task that records syscalls between yields, at most MaxCount of each
NextAcct ==
    \/ \E t \in SoloTasks, sp \in UserSpSet : LoadTask(t, sp)
    \/ RunTasks
    \/ Suspend
    \/ \E t \in Tasks, syscall \in SyscallSet :
           FewCalls(syscall) /\ RefreshProcessorSyscallTimes(t, syscall)

SpecAcct == Init /\ [][NextAcct]_vars

\* one task that queries its accounting while the clock runs
NextTime ==
    \/ \E t \in SoloTasks, sp \in UserSpSet : LoadTask(t, sp)
    \/ RunTasks
    \/ Suspend
    \/ Tick
    \/ \E t \in Tasks : GetCurrentProcessorInfo(t)
    \/ \E t \in Tasks : RefreshProcessorSyscallTimes(t, MAX_SYSCALL_NUM)

SpecTime == Init /\ [][NextTime]_vars

\* the callers of the current-task operations: the tasks and the idle flow
Callers == Tasks \cup {NoTask}

\* the dispatcher, the yields and exits, and every operation that resolves the
\* current task, called by a running task or on the idle flow; the arguments
\* are the ones that leave the task's data as it is
NextApi ==
    \/ Next
    \/ \E t \in Callers : RefreshProcessorSyscallTimes(t, MAX_SYSCALL_NUM)
    \/ \E t \in Callers : GetCurrentProcessorInfo(t)
    \/ \E t \in Callers : CurrentProcessorMMap(t, 1, PAGE_SIZE, 3)
    \/ \E t \in Callers : CurrentProcessorMUnmap(t, 1, PAGE_SIZE)
    \/ \E t \in Callers : CurrentTask(t)
    \/ \E t \in Callers : CurrentUserToken(t)
    \/ \E t \in Callers : CurrentTrapCx(t)
    \/ IdleTakeCurrentTask

SpecApi == Init /\ [][NextApi]_vars

\* one task that moves its program break and maps and unmaps one page
NextHeap ==
    \/ \E t \in SoloTasks, sp \in UserSpSet : LoadTask(t, sp)
    \/ RunTasks
    \/ \E t \in Tasks, size \in DeltaSet, result \in BOOLEAN :
           CurrentChangeProgramBrk(t, size, result)
    \/ \E t \in Tasks, port \in {1, 3} : CurrentProcessorMMap(t, 0, PAGE_SIZE, port)
    \/ \E t \in Tasks, len \in {PAGE_SIZE, 2 * PAGE_SIZE} :
           CurrentProcessorMUnmap(t, 0, len)

SpecHeap == Init /\ [][NextHeap]_vars

\* the dispatcher and the tasks, the idle flow running whenever it has the
\* processor: run_tasks is a loop without an exit
SpecLive == Init /\ [][Next]_vars /\ WF_vars(RunTasks)

TypeOK ==
    /\ current \in Tasks \cup {NoTask}
    /\ ready \subseteq Tasks
    /\ processor_borrowed \in BOOLEAN
    /\ flow \in Tasks \cup {NoTask}
    /\ \A t \in Tasks :
           tasks[t].task_status \in {"UnInit", "Ready", "Running", "Exited"}

(***************************************************************************)
(* Properties of the dispatcher/task handoff (checked under Spec).         *)
(***************************************************************************)
\* the idle flow executes run_tasks before the selected task is installed
IdleBeforeInstall ==
    flow = NoTask /\ pc \in {"loop", "fetch", "access_inner", "drop_inner", "install"}

\* the idle flow has installed the selected task and is about to switch to it
IdleAfterInstall ==
    flow = NoTask /\ pc \in {"drop_processor", "switch"}

\* C1: the current slot is empty whenever the idle flow executes between
\* tasks (so run_tasks installs a task only into an empty slot), it holds the
\* selected task from the installation to the switch, and it holds exactly
\* the running task while that task runs its own code.
C1_SlotFollowsHandoff ==
    /\ IdleBeforeInstall => current = NoTask
    /\ IdleAfterInstall => current = task /\ task # NoTask
    /\ \A t \in Tasks : flow = t /\ tpc[t] = "user" => current = t

\* C1 witness: a task runs in the slot after another task yielded back to the
\* dispatcher
C1_Witness ==
    \E t \in Tasks, u \in Tasks :
        /\ t # u
        /\ flow = t /\ tpc[t] = "user" /\ current = t
        /\ tpc[u] = "suspended" /\ tasks[u].task_status = "Ready"

RunningTasks == {t \in Tasks : tasks[t].task_status = "Running"}

\* C2: at most one task is Running; once a dispatch, yield or exit is complete
\* the Running task is the one in the current slot, and every other task is
\* Ready, Exited or UnInit.
C2_OneRunningIsCurrent ==
    /\ Cardinality(RunningTasks) <= 1
    /\ Quiescent =>
           \A t \in Tasks :
               IF tasks[t].task_status = "Running"
               THEN current = t
               ELSE tasks[t].task_status \in {"Ready", "Exited", "UnInit"}

\* C2 witness: a task is Running in the slot after another task exited
C2_Witness ==
    \E t \in Tasks, u \in Tasks :
        /\ t # u
        /\ flow = t /\ tpc[t] = "user"
        /\ tasks[t].task_status = "Running" /\ current = t
        /\ tasks[u].task_status = "Exited"

\* a flow is about to invoke __switch
AtSwitch ==
    \/ flow = NoTask /\ pc = "switch"
    \/ flow # NoTask /\ tpc[flow] = "schedule_switch"

\* C3: at every invocation of __switch, idle->task in run_tasks and
\* task->idle in schedule, neither the Processor nor any TCB is borrowed.
C3_NoBorrowAcrossSwitch ==
    AtSwitch => ~processor_borrowed /\ \A t \in Tasks : ~tcb_borrowed[t]

\* C3 witness: a task that was switched in by run_tasks is about to switch
\* back to the idle flow in schedule
C3_Witness ==
    /\ flow # NoTask /\ tpc[flow] = "schedule_switch" /\ pc = "switched"
    /\ ~processor_borrowed

\* C4: an Exited task stays Exited: no step selects it in run_tasks, marks it
\* Running or Ready, installs it in the current slot or queues it.
C4_ExitedIsTerminal ==
    [][\A t \in Tasks :
           tasks[t].task_status = "Exited" =>
               /\ tasks'[t].task_status = "Exited"
               /\ task' # t
               /\ current' # t
               /\ t \notin ready']_vars

\* C4 witness: the dispatcher selects a task while another task is Exited
C4_Witness ==
    \E t \in Tasks, u \in Tasks :
        /\ tasks[u].task_status = "Exited"
        /\ flow = NoTask /\ pc = "access_inner" /\ task = t /\ t # u

(***************************************************************************)
(* Properties of m_map and m_unmap (checked under SpecMem).  A step whose  *)
(* successor has last.op = "m_map" is a call of current_processor_m_map    *)
(* with the arguments and the result recorded in last; the unprimed state  *)
(* is the state before the call.                                           *)
(***************************************************************************)
\* the region set of the task the step's operation was applied to
MemBefore == tasks[last'.task].memory_set
MemAfter == tasks'[last'.task].memory_set

\* permission_bits with none of the three low bits set
NoLowBit(port) == port % 8 = 0
\* permission_bits with a bit outside the three low bits set
HighBit(port) == port \div 8 # 0

\* C5: m_map with a start that is not a multiple of the page size, or with
\* permission bits that have no low bit or some high bit set, returns -1 and
\* leaves the task (its region set included) unchanged, whatever len is.
C5_MapValidationFails ==
    [][(/\ last'.op = "m_map"
        /\ \/ last'.a % PAGE_SIZE # 0
           \/ NoLowBit(last'.c)
           \/ HighBit(last'.c))
       => (last'.ret = -1 /\ MemAfter = MemBefore /\ tasks' = tasks)]_vars

\* C5 witness: a call with a misaligned start, valid permission bits and an
\* aligned len failed on a task that has a region mapped
C5_Witness ==
    /\ last.op = "m_map" /\ last.ret = -1
    /\ last.a % PAGE_SIZE # 0 /\ last.b = PAGE_SIZE /\ last.c = 3
    /\ tasks[last.task].memory_set # {}

\* some region of the set has exactly the bounds [lo, hi)
ExactRegion(ms, lo, hi) == \E r \in ms : r.lo = lo /\ r.hi = hi

\* C6: m_unmap with a start or len that is not a multiple of the page size,
\* or with a range that is not exactly the bounds of a mapped region, returns
\* -1 and leaves the task (its region set included) unchanged.
C6_UnmapValidationFails ==
    [][(/\ last'.op = "m_unmap"
        /\ \/ last'.a % PAGE_SIZE # 0
           \/ last'.b % PAGE_SIZE # 0
           \/ ~ExactRegion(MemBefore, last'.a, last'.a + last'.b))
       => (last'.ret = -1 /\ MemAfter = MemBefore /\ tasks' = tasks)]_vars

\* C6 witness: the unmap of the first page of a mapped two-page region failed
C6_Witness ==
    /\ last.op = "m_unmap" /\ last.ret = -1
    /\ last.a % PAGE_SIZE = 0 /\ last.b = PAGE_SIZE
    /\ \E r \in tasks[last.task].memory_set :
           r.lo = last.a /\ r.hi = last.a + 2 * PAGE_SIZE

\* C7: after a successful m_map(start, len, bits) with page-aligned start and
\* len, an immediately following m_unmap(start, len) on the same task returns
\* 0 and the region set is what it was before the m_map.
C7_MapUnmapRoundTrip ==
    [][(/\ last.op = "m_map" /\ last.ret = 0
        /\ last.a % PAGE_SIZE = 0 /\ last.b % PAGE_SIZE = 0
        /\ last'.op = "m_unmap" /\ last'.task = last.task
        /\ last'.a = last.a /\ last'.b = last.b)
       => (last'.ret = 0 /\ MemAfter = last.pre)]_vars

\* C7 witness: a round trip of a non-empty range on a task that keeps another
\* region
C7_Witness ==
    /\ last.op = "m_unmap" /\ last.c = 1 /\ last.ret = 0
    /\ last.b = PAGE_SIZE
    /\ tasks[last.task].memory_set = last.pre /\ last.pre # {}

\* the ranges [lo, hi) and [r.lo, r.hi) have an address in common
SharesAddress(lo, hi, r) ==
    (IF lo < r.lo THEN r.lo ELSE lo) < (IF hi < r.hi THEN hi ELSE r.hi)

\* C8: m_map of a range that shares an address with a mapped region returns
\* -1 and leaves every region (bounds and permission) as it was: nothing of
\* the requested range becomes mapped.
C8_OverlappingMapFails ==
    [][(/\ last'.op = "m_map"
        /\ \E r \in MemBefore : SharesAddress(last'.a, last'.a + last'.b, r))
       => (last'.ret = -1 /\ MemAfter = MemBefore /\ tasks' = tasks)]_vars

\* C8 witness: the page mapped read|write is requested again with read only;
\* the call failed and the first mapping is there with its permission
C8_Witness ==
    /\ last.op = "m_map" /\ last.ret = -1
    /\ last.a = PAGE_SIZE /\ last.b = PAGE_SIZE /\ last.c = 1
    /\ [lo |-> PAGE_SIZE, hi |-> 2 * PAGE_SIZE, perm |-> PermBits(3)]
           \in tasks[last.task].memory_set

(***************************************************************************)
(* Property of change_program_brk (checked under SpecBrk).                 *)
(***************************************************************************)
\* C9: change_program_brk(d) with program_brk + d < heap_bottom returns None
\* and keeps program_brk; otherwise, when the address space's grow/shrink
\* succeeds, program_brk becomes program_brk + d and the previous break is
\* returned, and when it fails, None is returned and program_brk is kept.
C9_ProgramBreak ==
    [][last'.op = "brk" =>
           LET t == last'.task
               d == last'.a
               old == tasks[t].program_brk
           IN IF old + d < tasks[t].heap_bottom
              THEN last'.ret = NoneRet /\ tasks'[t].program_brk = old
              ELSE IF last'.b = 1
                   THEN last'.ret = old /\ tasks'[t].program_brk = old + d
                   ELSE last'.ret = NoneRet /\ tasks'[t].program_brk = old]_vars

\* C9 witness: a shrink succeeded on a grown heap and returned the previous break
C9_Witness ==
    /\ last.op = "brk" /\ last.a < 0 /\ last.b = 1
    /\ last.ret = tasks[last.task].program_brk - last.a
    /\ tasks[last.task].program_brk > tasks[last.task].heap_bottom

(***************************************************************************)
(* Property of the syscall accounting (checked under SpecAcct).            *)
(***************************************************************************)
\* C10: with a task in the current slot, refresh_processor_syscall_times(id)
\* does not panic; for id >= MAX_SYSCALL_NUM it leaves every counter as it
\* was, for id < MAX_SYSCALL_NUM it adds exactly 1 to counter id and leaves
\* the other counters as they were.
C10_SyscallCounting ==
    [][/\ panic' = ""
       /\ last'.op = "refresh" =>
              LET old == tasks[last'.task].task_info.syscall_times
                  new == tasks'[last'.task].task_info.syscall_times
                  id == last'.a
              IN /\ DOMAIN new = DOMAIN old
                 /\ \A j \in DOMAIN old :
                        new[j] = IF j = id /\ id < MAX_SYSCALL_NUM
                                 THEN old[j] + 1
                                 ELSE old[j]]_vars

\* C10 witness: an out-of-range id was recorded after MaxCount calls with id 0
\* and one call with id 1; the counters hold exactly those numbers
C10_Witness ==
    /\ last.op = "refresh" /\ last.a >= MAX_SYSCALL_NUM
    /\ current = last.task
    /\ tasks[last.task].task_info.syscall_times[0] = MaxCount
    /\ tasks[last.task].task_info.syscall_times[1] = 1

(***************************************************************************)
(* Properties of the accounting query (checked under SpecTime).            *)
(***************************************************************************)
\* C11: the first dispatch of a freshly constructed task sets its status to
\* Running and its start time to the time of the dispatch, and a query of the
\* accounting that is the first operation after that dispatch, made with no
\* time elapsed since it, reports an elapsed time of 0.
C11_FirstDispatchStartsClock ==
    [][/\ (last'.op = "dispatch" /\ last.op # "dispatch" /\ last'.c = 1)
           => /\ tasks'[last'.task].task_status = "Running"
              /\ tasks'[last'.task].task_start_time = last'.a
       /\ (last.op = "dispatch" /\ last.c = 1 /\ last'.op = "info" /\ last'.a = last.a)
           => last'.ret = 0]_vars

\* C12: the snapshot returned by the accounting query carries the status the
\* task's control block has at the time of the call, and the elapsed time
\* now - start_time, whether or not a syscall was recorded since the dispatch.
C12_SnapshotMirrorsStatus ==
    [][(last'.op = "info")
          => /\ last'.snap = tasks[last'.task].task_status
             /\ last'.ret = last'.a - tasks[last'.task].task_start_time]_vars

(***************************************************************************)
(* Properties of the current-task operations (checked under SpecApi).      *)
(***************************************************************************)
\* a step of one of the operations that resolve the current task, called by t
ResolvesCurrent(t) ==
    \/ RefreshProcessorSyscallTimes(t, MAX_SYSCALL_NUM)
    \/ GetCurrentProcessorInfo(t)
    \/ CurrentProcessorMMap(t, 1, PAGE_SIZE, 3)
    \/ CurrentProcessorMUnmap(t, 1, PAGE_SIZE)
    \/ CurrentUserToken(t)
    \/ CurrentTrapCx(t)

\* C13: called while the current slot is empty, each operation that resolves
\* the current task ends in the "no current task" abort; no task control
\* block is modified and the slot stays empty.
C13_EmptySlotAborts ==
    [][\A t \in Callers :
          (current = NoTask /\ ~processor_borrowed /\ ResolvesCurrent(t))
              => /\ panic' = "NoCurrentTask"
                 /\ tasks' = tasks
                 /\ current' = NoTask
                 /\ last' = last]_vars

C13_Witness ==
    /\ panic = "NoCurrentTask"
    /\ current = NoTask
    /\ flow = NoTask
    /\ \E t \in Tasks : tasks[t].task_status = "Ready"

\* neither the Processor nor any TCB is borrowed
NothingBorrowed ==
    /\ ~processor_borrowed
    /\ \A t \in Tasks : ~tcb_borrowed[t]

\* C19: no operation of the dispatcher or of a task finds the exclusive
\* access it acquires already held, and no operation invoked by a running
\* task panics; a TCB is borrowed only while the Processor is, and nothing
\* is borrowed where an operation has returned (the idle loop's head, a
\* task's own code) or switches.  A call that stopped the kernel in a panic
\* has not returned.
C19_NoReentrantBorrow ==
    /\ panic # "BorrowMutError"
    /\ (panic # "") => flow = NoTask
    /\ (\E t \in Tasks : tcb_borrowed[t]) => processor_borrowed
    /\ (panic = "" /\ (Quiescent \/ AtSwitch)) => NothingBorrowed

C19_Witness ==
    /\ flow = NoTask /\ pc = "drop_inner"
    /\ processor_borrowed /\ tcb_borrowed[task]
    /\ \E t \in Tasks : tpc[t] = "suspended" /\ tasks[t].task_status = "Exited"

\* the status of every task is what it was
StatusesUnchanged ==
    \A u \in Tasks : tasks'[u].task_status = tasks[u].task_status

\* a step of one of the operations that only read the slot, called by t
ReadsSlot(t) ==
    \/ CurrentTask(t)
    \/ RefreshProcessorSyscallTimes(t, MAX_SYSCALL_NUM)
    \/ GetCurrentProcessorInfo(t)
    \/ CurrentProcessorMMap(t, 1, PAGE_SIZE, 3)
    \/ CurrentProcessorMUnmap(t, 1, PAGE_SIZE)

\* a step of schedule, called by t
ScheduleStep(t) ==
    ScheduleAccess(t) \/ ScheduleDropProcessor(t) \/ ScheduleSwitch(t)

\* C20: the current slot changes only when run_tasks stores the selected task
\* in it and when take_current empties it, returning what it held (none when
\* it was empty); current(), the accounting and mapping operations and
\* schedule leave the slot and every task's status as they are, and
\* current() returns the task the slot holds.
C20_SlotFrame ==
    [][/\ (current' # current)
           => \/ flow = NoTask /\ pc = "install" /\ current' = task
              \/ current' = NoTask /\ taken' = current /\ flow # NoTask
              \/ current' = NoTask /\ last'.op = "take" /\ last'.ret = current
       /\ (last'.op = "take" /\ last.op # "take")
           => current' = NoTask /\ last'.ret = current
       /\ \A t \in Callers : ReadsSlot(t)
              => current' = current /\ StatusesUnchanged
       /\ \A t \in Tasks : ScheduleStep(t)
              => current' = current /\ StatusesUnchanged
       /\ (last'.op = "current" /\ last.op # "current")
           => last'.ret = current /\ last'.ret = current']_vars

C20_Witness ==
    /\ last.op = "current"
    /\ last.ret = current
    /\ current # NoTask
    /\ flow = current
    /\ \E t \in Tasks : t # current /\ tasks[t].task_status = "Ready"

(***************************************************************************)
(* Properties of the dispatch loop (checked under Spec and SpecLive).      *)
(***************************************************************************)
\* the idle flow is about to learn that the ready queue is empty
Starved == panic = "" /\ flow = NoTask /\ pc = "fetch" /\ ready = {}

\* C14: an iteration of run_tasks that finds the ready queue empty changes
\* nothing (the slot stays empty, no status changes, no switch is issued),
\* gives up the Processor and starts the next iteration; and whenever the
\* queue holds a task while the idle flow has the processor, a later
\* iteration dispatches a task.
C14_StarvationPolls ==
    /\ [][Starved => /\ pc' = "loop" /\ flow' = NoTask
                      /\ ~processor_borrowed'
                      /\ current = NoTask /\ current' = NoTask
                      /\ tasks' = tasks /\ ready' = ready /\ tpc' = tpc
                      /\ panic' = ""]_vars
    /\ ((flow = NoTask /\ ready # {}) ~> (flow # NoTask))

C14_Witness ==
    /\ last.op = "warn"
    /\ flow = NoTask /\ pc = "loop"
    /\ ~processor_borrowed /\ current = NoTask
    /\ \A t \in Tasks : tasks[t].task_status = "Exited"

\* the status changes a task may make
StatusTransitions ==
    {<<"UnInit", "Ready">>, <<"Ready", "Running">>, <<"Running", "Ready">>,
     <<"Running", "Exited">>}

\* C15: run_tasks marks a task Running only when it is Ready, and every
\* change of a task's status is UnInit->Ready, Ready->Running,
\* Running->Ready or Running->Exited (so never UnInit->Running).
C15_StatusTransitions ==
    [][/\ (flow = NoTask /\ pc = "access_inner" /\ pc' = "drop_inner")
           => /\ tasks[task].task_status = "Ready"
              /\ tasks'[task].task_status = "Running"
       /\ \A t \in Tasks :
              tasks'[t].task_status # tasks[t].task_status
                  => <<tasks[t].task_status, tasks'[t].task_status>>
                         \in StatusTransitions]_vars

C15_Witness ==
    /\ last.op = "dispatch" /\ last.c = 0 /\ last.snap = "Ready"
    /\ tasks[last.task].task_status = "Running"
    /\ pc = "drop_inner"

\* C16: the __switch of schedule hands control to the idle flow, which
\* continues after the __switch of run_tasks with a new iteration; the
\* dispatcher stands inside its __switch while a task runs; a task that is
\* not running stands where it was created or inside the __switch of
\* schedule, and moves only when run_tasks switches to it.
C16_StrictAlternation ==
    /\ [](flow # NoTask => pc = "switched")
    /\ [](\A t \in Tasks : t # flow => tpc[t] \in {"new", "suspended"})
    /\ [][/\ \A t \in Tasks :
                 (flow = t /\ tpc[t] = "schedule_switch" /\ tpc'[t] # tpc[t])
                     => /\ flow' = NoTask /\ pc = "switched" /\ pc' = "loop"
                        /\ tpc'[t] = "suspended"
          /\ \A t \in Tasks :
                 (tpc'[t] # tpc[t])
                     => \/ flow = t
                        \/ flow = NoTask /\ pc = "switch" /\ flow' = t /\ task = t
          /\ (pc' # pc)
                 => \/ flow = NoTask
                    \/ tpc[flow] = "schedule_switch" /\ flow' = NoTask]_vars

C16_Witness ==
    /\ flow = NoTask /\ pc = "loop"
    /\ \E t \in Tasks : /\ tpc[t] = "suspended"
                         /\ tasks[t].task_status = "Ready"
                         /\ t \in ready

(***************************************************************************)
(* Property of the permission of a mapping (checked under SpecMem).        *)
(***************************************************************************)
\* the read, write and execute flags a permission grants, in the positions
\* of the request (bit 0 read, bit 1 write, bit 2 execute): MapPermission
\* keeps R, W and X in bits 1, 2 and 3
GrantedFlags(perm) == (perm \div 2) % 8

\* C17: the region inserted by a successful m_map(start, len, port) grants
\* read, write and execute exactly for the flags set in port.
C17_PermissionAsRequested ==
    [][(last'.op = "m_map" /\ last'.ret = 0)
          => \E r \in MemAfter :
                 /\ r.lo = last'.a /\ r.hi = last'.a + last'.b
                 /\ GrantedFlags(r.perm) = last'.c]_vars

(***************************************************************************)
(* Property of the heap bounds (checked under SpecHeap).                   *)
(***************************************************************************)
\* C18: over every sequence of change_program_brk, m_map and m_unmap calls,
\* heap_bottom <= program_brk in every state, and heap_bottom and base_size
\* keep the values TaskControlBlock::new gave them.
C18_HeapBounds ==
    /\ [](\A t \in Tasks : tasks[t].heap_bottom <= tasks[t].program_brk)
    /\ [][\A t \in Tasks :
              tasks[t].task_status # "UnInit"
                  => /\ tasks'[t].heap_bottom = tasks[t].heap_bottom
                     /\ tasks'[t].base_size = tasks[t].base_size]_vars

\* C18 witness: with a page mapped and the heap grown, a shrink below
\* heap_bottom was rejected
C18_Witness ==
    /\ last.op = "brk" /\ last.ret = NoneRet /\ last.b = 1
    /\ tasks[last.task].program_brk + last.a < tasks[last.task].heap_bottom
    /\ tasks[last.task].program_brk > tasks[last.task].heap_bottom
    /\ tasks[last.task].memory_set # {}

=============================================================================
